---- MODULE Spec2Model ----
(***************************************************************************)
(* Football prediction servers (Zafer1978/football-pred).                  *)
(*                                                                         *)
(* The module models the fixture cache of the "AI Picks" servers           *)
(* (v3 and v4 in src/server.js, v5.2.2 "strongest market" in               *)
(* src/unnamed/part_000): the single CACHE slot, warmCache, the refresh    *)
(* loop of fetchFixturesToday with its upstream requests and memo maps,    *)
(* the GET /api/today handler, the boot warm and the 00:01 cron job; and   *)
(* the market selector chooseStrongest of v5.2.2.                          *)
(*                                                                         *)
(* Node runs one handler segment at a time: everything between two awaits  *)
(* that need the network is one atomic step.  An action below is such a    *)
(* segment: from the arrival of an upstream response (or of a trigger) to  *)
(* the next upstream request, or to the end of the handler.                *)
(***************************************************************************)
EXTENDS Integers, Sequences, FiniteSets, TLC

(***************************************************************************)
(* Bounds of the model.                                                    *)
(***************************************************************************)
MaxDay == 2           \* local dates 1..MaxDay
\* Spec: the process with all its refresh triggers racing
MaxWarm == 3          \* warmCache invocations in one run of the process
MaxGet == 2           \* GET /api/today requests in one run of the process
MaxFeed == 1          \* length of the upstream fixture list
\* SpecLoop: the refresh loop over longer fixture lists
MaxLoopWarm == 2
MaxLoopGet == 1
MaxFixtures == 2
\* SpecSelect: how far around an edge of 0 and of EDGE_MIN the inputs range
EdgeWindow == 1

(***************************************************************************)
(* Program constants.                                                      *)
(***************************************************************************)
START_HOUR == 11
END_HOUR == 24
InvalidDate == -1   \* utcDate that new Date() cannot parse: localParts throws
\* Probabilities and edges are counted in units of 1/150, in which the neutral
\* baselines 1/3 and 1/2 and the default EDGE_MIN of 0.08 are whole numbers.
Scale == 3 * 50
Third == Scale \div 3
Half == Scale \div 2
EDGE_MIN == 12

Engines == {"v3", "v4", "v5"}

VARIABLES
  engine,          \* which server file runs: v3, v4 (src/server.js) or v5 (part_000)
  apiKey,          \* API_KEY is non-empty
  fallbackDemo,    \* FALLBACK_DEMO
  today,           \* todayYMD(): the local date, as a day number
  booted,          \* the app.listen callback has run
  cronDue,         \* the date has changed and the 00:01 job has not yet run
  CACHE,           \* the cache slot
  standingsCache,  \* memo: competition -> stored pack ("table" or "empty")
  formCache,       \* memo: team:competition -> stored last5
  refresh,         \* the warmCache invocations, in order of start
  reqs,            \* the GET /api/today requests, in order of arrival
  feed,            \* upstream: the fixture list it holds for the current date window
  bound,           \* the bounds of the run: [warm, get, fixtures]
  probs,           \* market selector: the probabilities handed to the selector
  chosen,          \* market selector: the candidate chooseStrongest returned
  args,            \* a call of one of the pure functions: its name and arguments
  result,          \* what that call returned
  sched            \* rate-limited server (part_004): the prediction queue of a warm

config == <<engine, apiKey, fallbackDemo, bound>>
server == <<today, booted, cronDue, CACHE, standingsCache, formCache, refresh, reqs>>
selector == <<probs, chosen, args, result, sched>>
vars == <<engine, apiKey, fallbackDemo, today, booted, cronDue, CACHE,
          standingsCache, formCache, refresh, reqs, feed, bound, probs, chosen,
          args, result, sched>>

(***************************************************************************)
(* Upstream data.  A fixture carries what the refresh loop reads from it:  *)
(* the local kickoff (day offset and hour of utcDate in TZ), competition   *)
(* id and team ids (0: absent).                                            *)
(***************************************************************************)
Comps == {1}
Teams == {1, 2}
FormKeys == Teams \X Comps

Fixtures ==
  { [day |-> 0, hh |-> 20, comp |-> 1, home |-> 1, away |-> 2],
    [day |-> 1, hh |-> 11, comp |-> 0, home |-> 0, away |-> 0],
    [day |-> 0, hh |-> 10, comp |-> 1, home |-> 2, away |-> 1],
    [day |-> 0, hh |-> InvalidDate, comp |-> 1, home |-> 1, away |-> 2] }

FixtureLists(max) == UNION { [1..n -> Fixtures] : n \in 0..max }

\* What an upstream request can come back as: a 2xx JSON body of the expected
\* shape; a body without the expected field (a non-2xx error body, or text that
\* is not JSON, which getJson wraps as {raw}); or fetch() rejecting.
Outcomes == {"ok", "bad", "reject"}

\* localParts(kickoffIso).hh and the window test of the loop
InWindow(f) == f.hh >= START_HOUR /\ f.hh < END_HOUR

\* toLocalLabel(kickoffIso): 'YYYY-MM-DD HH:MM' in TZ; zero padded, so that
\* localeCompare orders labels as (date, hour)
toLocalLabel(f) == f.day * 24 + f.hh

(***************************************************************************)
(* The cache slot.  date 0 is null.  reason "" and error FALSE and         *)
(* total -1 stand for an absent field.  by is the warmCache invocation     *)
(* that assigned the slot (0: the initial value).                          *)
(***************************************************************************)
InitCache ==
  [date |-> 0, rows |-> <<>>, savedAt |-> 0, reason |-> "", error |-> FALSE,
   total |-> -1, by |-> 0]

DemoRow == [fx |-> 0, kickoff |-> 19, prediction |-> "demo"]

\* The prediction a row gets when the per-fixture try block threw: v3 and v4
\* keep the default pick they initialised, v5.2.2 leaves out = null.
FailPrediction(e) ==
  CASE e = "v3" -> "1X2: 1 (45%)"
    [] e = "v4" -> "1X2: 1 (40%)"
    [] OTHER -> "N/A"

ComputedPrediction == "pick"

\* rows.sort((a,b) => a.kickoff.localeCompare(b.kickoff)): a stable sort
InsertRow(s, x) ==
  LET k == Cardinality({j \in 1..Len(s) : s[j].kickoff <= x.kickoff})
  IN SubSeq(s, 1, k) \o <<x>> \o SubSeq(s, k + 1, Len(s))

RECURSIVE SortRows(_)
SortRows(rows) ==
  IF rows = <<>> THEN <<>>
  ELSE InsertRow(SortRows(SubSeq(rows, 1, Len(rows) - 1)), rows[Len(rows)])

(***************************************************************************)
(* fetchFixturesToday, from the fixture loop on.  A refresh record s       *)
(* carries arr, the loop position i (1-based) and the rows pushed so far;  *)
(* s.pc says where it stands:                                              *)
(*   "loop"      at the head of the for loop                               *)
(*   "standings" "home" "away"   about to call getStandings /              *)
(*                getLastLeagueMatches for the home / away team            *)
(*   "return"    returned normally, "throw" threw                          *)
(* Run executes the segment up to the next upstream request: it returns s  *)
(* with pc "standings", "home" or "away" when that call misses the memo    *)
(* (the request is then sent and awaited), or with "return" / "throw".     *)
(* The loop is the same in the three servers, up to the row's initial      *)
(* prediction (FailPrediction) and the key of v3's formCache, the team id  *)
(* alone, which with one competition names the same entries.  v3 also      *)
(* awaits sleep(120) between the calls: a timer, after which it goes on    *)
(* from the state it left; it pushes the rows of the segments below.       *)
(***************************************************************************)
\* s.wait holds the upstream requests of the refresh that are outstanding, each
\* as <<kind, fixture index>> (index 0: the fixture list).
\* (mutant) the recent matches of both teams are asked for at once
AwaitBothTeams(s) ==
  [s EXCEPT !.wait = @ \cup (IF s.pc \in {"home", "away"}
                              THEN {<<"home", s.i>>, <<"away", s.i>>}
                              ELSE {<<s.pc, s.i>>})]

\* await getJson(...): the request named by pc is sent and awaited
Await(s) == [s EXCEPT !.wait = @ \cup {<<s.pc, s.i>>}]

\* the awaited response has arrived
Receive(s) == [s EXCEPT !.wait = @ \ {<<s.pc, IF s.pc = "fixtures" THEN 0 ELSE s.i>>}]

PushRow(s, pred) ==
  [s EXCEPT !.rows = Append(@, [fx |-> s.i, kickoff |-> toLocalLabel(s.arr[s.i]),
                                 prediction |-> pred]),
            !.i = @ + 1,
            !.pc = "loop"]

FinishRows(s, demo) ==
  LET sorted == SortRows(s.rows)
  IN [s EXCEPT !.rows = IF sorted = <<>> /\ demo THEN <<DemoRow>> ELSE sorted,
               !.pc = "return"]

RECURSIVE Run(_, _, _, _)
Run(s, sc, fc, demo) ==
  IF s.pc = "loop" THEN
    IF s.i > Len(s.arr) THEN FinishRows(s, demo)
    ELSE IF s.arr[s.i].hh = InvalidDate THEN [s EXCEPT !.pc = "throw"]
    ELSE IF ~InWindow(s.arr[s.i]) THEN Run([s EXCEPT !.i = @ + 1], sc, fc, demo)
    ELSE Run([s EXCEPT !.pc = "standings"], sc, fc, demo)
  ELSE IF s.pc = "standings" THEN
    IF s.arr[s.i].comp = 0 \/ s.arr[s.i].comp \in DOMAIN sc
    THEN Run([s EXCEPT !.pc = "home"], sc, fc, demo)
    ELSE Await(s)
  ELSE IF s.pc = "home" THEN
    IF s.arr[s.i].home = 0 \/ <<s.arr[s.i].home, s.arr[s.i].comp>> \in fc
    THEN Run([s EXCEPT !.pc = "away"], sc, fc, demo)
    ELSE Await(s)
  ELSE IF s.pc = "away" THEN
    IF s.arr[s.i].away = 0 \/ <<s.arr[s.i].away, s.arr[s.i].comp>> \in fc
    THEN Run(PushRow(s, ComputedPrediction), sc, fc, demo)
    ELSE Await(s)
  ELSE s

(***************************************************************************)
(* warmCache.  FetchResult is what fetchFixturesToday returned, the value  *)
(* that warmCache spreads into the slot together with savedAt; the slot is *)
(* assigned only there, when the refresh has returned or thrown.           *)
(***************************************************************************)
FetchResult(s) ==
  IF s.reason # ""
  THEN [date |-> s.date, rows |-> <<>>, reason |-> s.reason, total |-> -1]
  ELSE [date |-> s.date, rows |-> s.rows, reason |-> "", total |-> Len(s.arr)]

\* (mutant) the loop pushes its rows into the array the slot holds
warmCacheSharedRows(cache, r, s, now) ==
  IF s.pc = "return" THEN
    [date |-> FetchResult(s).date, rows |-> FetchResult(s).rows, savedAt |-> now,
     reason |-> FetchResult(s).reason, error |-> FALSE,
     total |-> FetchResult(s).total, by |-> r]
  ELSE IF s.pc = "throw" THEN
    [date |-> now, rows |-> <<>>, savedAt |-> now, reason |-> "", error |-> TRUE,
     total |-> -1, by |-> r]
  ELSE [cache EXCEPT !.rows = s.rows]

warmCache(cache, r, s, now) ==
  IF s.pc = "return" THEN
    [date |-> FetchResult(s).date, rows |-> FetchResult(s).rows, savedAt |-> now,
     reason |-> FetchResult(s).reason, error |-> FALSE,
     total |-> FetchResult(s).total, by |-> r]
  ELSE IF s.pc = "throw" THEN
    [date |-> now, rows |-> <<>>, savedAt |-> now, reason |-> "", error |-> TRUE,
     total |-> -1, by |-> r]
  ELSE cache

Finished(s) == s.pc \in {"return", "throw"}

\* The refresh record kept after a segment: a finished refresh is "done" or
\* "failed" and its loop variables are gone (arr is kept, as the list this
\* refresh was answered with); otherwise the request named by pc has been sent
\* and is awaited.
AfterSegment(s) ==
  IF Finished(s)
  THEN [s EXCEPT !.pc = IF s.pc = "return" THEN "done" ELSE "failed",
                 !.i = 1, !.rows = <<>>]
  ELSE s

\* res.json(CACHE) of the GET /api/today handler that awaited this warmCache
Respond(rs, q, cache, now) ==
  [rs EXCEPT ![q] = [@ EXCEPT !.done = TRUE, !.e = now, !.resp = cache]]

\* One segment of warmCache invocation r ends in state s; rs is the list of
\* requests at that point.
Commit(r, s, rs) ==
  /\ refresh' = IF r > Len(refresh) THEN Append(refresh, AfterSegment(s))
                ELSE [refresh EXCEPT ![r] = AfterSegment(s)]
  /\ CACHE' = warmCache(CACHE, r, s, today)
  /\ reqs' = IF Finished(s) /\ s.req # 0 THEN Respond(rs, s.req, CACHE', today) ELSE rs

\* (mutant) the date taken from the UTC clock, a day behind in TZ after midnight
FirstSegmentUtcDate(trig, q, now, key) ==
  [trig |-> trig, req |-> q, date |-> now - 1,
   pc |-> IF key THEN "fixtures" ELSE "return",
   reason |-> IF key THEN "" ELSE "missing_api_key",
   arr |-> <<>>, i |-> 1, rows |-> <<>>, fx |-> "none",
   lists |-> IF key THEN 1 ELSE 0,
   wait |-> IF key THEN {<<"fixtures", 0>>} ELSE {}]

\* (mutant) no API key test: the fixture list is asked for in any case
FirstSegmentNoKeyTest(trig, q, now, key) ==
  [trig |-> trig, req |-> q, date |-> now, pc |-> "fixtures", reason |-> "",
   arr |-> <<>>, i |-> 1, rows |-> <<>>, fx |-> "none", lists |-> 1,
   wait |-> {<<"fixtures", 0>>}]

\* fetchFixturesToday up to its first await: the date is read, and without an
\* API key the function returns at once; with a key the fixture list is asked for.
FirstSegment(trig, q, now, key) ==
  [trig |-> trig, req |-> q, date |-> now,
   pc |-> IF key THEN "fixtures" ELSE "return",
   reason |-> IF key THEN "" ELSE "missing_api_key",
   arr |-> <<>>, i |-> 1, rows |-> <<>>, fx |-> "none",
   lists |-> IF key THEN 1 ELSE 0,
   wait |-> IF key THEN {<<"fixtures", 0>>} ELSE {}]

StartWarm(trig, q, rs) ==
  /\ Len(refresh) < bound.warm
  /\ Commit(Len(refresh) + 1, FirstSegment(trig, q, today, apiKey), rs)

(***************************************************************************)
(* Initial state: the module has been loaded, app.listen has been called.  *)
(***************************************************************************)
NoProbs == [pH |-> 0, pD |-> 0, pA |-> 0, pU25 |-> 0, pBTTS |-> 0]
NoPick == [market |-> "", label |-> "", prob |-> 0, edge |-> 0, note |-> ""]
NoCall == [fn |-> "none"]
NoSched == [pc |-> "none"]

ServerInit ==
  /\ apiKey \in BOOLEAN
  /\ fallbackDemo \in BOOLEAN
  /\ today = 1
  /\ booted = FALSE
  /\ cronDue = FALSE
  /\ CACHE = InitCache
  /\ standingsCache = <<>>
  /\ formCache = {}
  /\ refresh = <<>>
  /\ reqs = <<>>
  /\ feed \in FixtureLists(bound.fixtures)
  /\ probs = NoProbs
  /\ chosen = NoPick
  /\ args = NoCall
  /\ result = NoCall
  /\ sched = NoSched

Init ==
  /\ engine = "v5"
  /\ bound = [warm |-> MaxWarm, get |-> MaxGet, fixtures |-> MaxFeed]
  /\ ServerInit

InitLoop ==
  /\ engine \in Engines
  /\ bound = [warm |-> MaxLoopWarm, get |-> MaxLoopGet, fixtures |-> MaxFixtures]
  /\ ServerInit

(***************************************************************************)
(* Triggers of warmCache.                                                  *)
(***************************************************************************)
\* app.listen callback: warmCache() is called and not awaited
BootWarm ==
  /\ ~booted
  /\ booted' = TRUE
  /\ StartWarm("boot", 0, reqs)
  /\ UNCHANGED <<config, today, cronDue, standingsCache, formCache, feed, selector>>

\* the local date changes; the 00:01 job of the new date becomes due, and the
\* upstream has the fixtures of the new date window
Midnight ==
  /\ booted
  /\ ~cronDue
  /\ today < MaxDay
  /\ today' = today + 1
  /\ cronDue' = TRUE
  /\ feed' \in FixtureLists(bound.fixtures)
  /\ UNCHANGED <<config, booted, CACHE, standingsCache, formCache, refresh, reqs, selector>>

\* cron.schedule('1 0 * * *', async () => { await warmCache(); })
CronJob ==
  /\ cronDue
  /\ cronDue' = FALSE
  /\ StartWarm("cron", 0, reqs)
  /\ UNCHANGED <<config, today, booted, standingsCache, formCache, feed, selector>>

\* a GET /api/today request has, at its start, seen another request start and
\* complete on the current local date
ServedToday ==
  \E p \in 1..Len(reqs) : reqs[p].done /\ reqs[p].d = today /\ reqs[p].e = today

\* A request record: d and e are the local dates at its start and at its
\* response, prev is CACHE.date as the handler read it, first says that no
\* earlier request started on d, after is ServedToday at its start, warm is the
\* warmCache invocation it awaits (0: none), resp is the body it sent.
NewRequest(stale) ==
  [d |-> today, e |-> 0, prev |-> CACHE.date,
   first |-> \A p \in 1..Len(reqs) : reqs[p].d # today,
   after |-> ServedToday,
   warm |-> IF stale THEN Len(refresh) + 1 ELSE 0, done |-> FALSE, resp |-> InitCache]

\* app.get('/api/today'): a fresh cache is sent at once, a stale one after
\* awaiting warmCache
GetToday ==
  /\ booted
  /\ Len(reqs) < bound.get
  /\ IF CACHE.date # today
     THEN /\ StartWarm("get", Len(reqs) + 1, Append(reqs, NewRequest(TRUE)))
     ELSE /\ reqs' = Respond(Append(reqs, NewRequest(FALSE)), Len(reqs) + 1, CACHE, today)
          /\ UNCHANGED <<CACHE, refresh>>
  /\ UNCHANGED <<config, today, booted, cronDue, standingsCache, formCache, feed, selector>>

(***************************************************************************)
(* Upstream responses.                                                     *)
(***************************************************************************)
\* const j = await getJson(url); const arr = Array.isArray(j?.matches) ? j.matches : []
FixturesResponse(r, out) ==
  /\ refresh[r].pc = "fixtures"
  /\ LET s == [Receive(refresh[r]) EXCEPT !.fx = out, !.arr = IF out = "ok" THEN feed ELSE <<>>,
                                 !.pc = IF out = "reject" THEN "throw" ELSE "loop"]
     IN Commit(r, Run(s, standingsCache, formCache, fallbackDemo), reqs)
  /\ UNCHANGED <<config, today, booted, cronDue, standingsCache, formCache, feed, selector>>

\* getStandings: a rejected fetch is caught there and nothing is stored; any
\* body that getJson could return is turned into a pack and stored with
\* standingsCache.set: the table of a 2xx standings body, or, for a body
\* without standings (an error body, text that is not JSON), the empty pack
getStandings(sc, c, out) ==
  IF out = "reject" THEN sc
  ELSE [x \in DOMAIN sc \cup {c} |->
          IF x = c THEN (IF out = "ok" THEN "table" ELSE "empty") ELSE sc[x]]

StandingsResponse(r, out) ==
  /\ refresh[r].pc = "standings"
  /\ LET s == Receive(refresh[r])
         sc == getStandings(standingsCache, s.arr[s.i].comp, out)
     IN /\ standingsCache' = sc
        /\ Commit(r, Run([s EXCEPT !.pc = "home"], sc, formCache, fallbackDemo), reqs)
  /\ UNCHANGED <<config, today, booted, cronDue, formCache, feed, selector>>

\* getLastLeagueMatches: a rejected fetch throws to the caller; otherwise the
\* last5 list (empty when the body has no matches array) is stored
getLastLeagueMatches(fc, k, out) ==
  IF out = "reject" THEN fc ELSE fc \cup {k}

\* (mutant) no try/catch around the fixture: the throw leaves fetchFixturesToday
FixtureThrowAborts(s, e) == [s EXCEPT !.pc = "throw"]

\* the per-fixture try/catch: a throw inside leaves the row's prediction at its
\* initial value, the row is pushed and the loop goes on with the next fixture
FixtureThrowCaught(s, e) == PushRow(s, FailPrediction(e))

MatchesResponse(r, side, out) ==
  /\ refresh[r].pc = side
  /\ LET s == Receive(refresh[r])
         f == s.arr[s.i]
         team == IF side = "home" THEN f.home ELSE f.away
         fc == getLastLeagueMatches(formCache, <<team, f.comp>>, out)
         next == IF out = "reject" THEN FixtureThrowCaught(s, engine)
                 ELSE IF side = "home" THEN [s EXCEPT !.pc = "away"]
                 ELSE PushRow(s, ComputedPrediction)
     IN /\ formCache' = fc
        /\ Commit(r, Run(next, standingsCache, fc, fallbackDemo), reqs)
  /\ UNCHANGED <<config, today, booted, cronDue, standingsCache, feed, selector>>

Next ==
  \/ BootWarm
  \/ Midnight
  \/ CronJob
  \/ GetToday
  \/ \E r \in 1..Len(refresh), out \in Outcomes : FixturesResponse(r, out)
  \/ \E r \in 1..Len(refresh), out \in Outcomes : StandingsResponse(r, out)
  \/ \E r \in 1..Len(refresh), side \in {"home", "away"}, out \in Outcomes :
       MatchesResponse(r, side, out)

Spec == Init /\ [][Next]_vars

SpecLoop == InitLoop /\ [][Next]_vars

(***************************************************************************)
(* chooseStrongest (v5.2.2), from the market probabilities on: p holds     *)
(* the sharpened 1X2 probabilities, P(total goals <= 2) and P(both teams   *)
(* score), as the first lines of the function computed them from lh, la.   *)
(***************************************************************************)
\* [..].sort((a,b) => b.p - a.p): stable, descending in p; x goes behind the
\* elements whose p is not smaller
InsertByP(s, x) ==
  LET k == Cardinality({j \in 1..Len(s) : s[j].p >= x.p})
  IN SubSeq(s, 1, k) \o <<x>> \o SubSeq(s, k + 1, Len(s))

SortByP(s) ==
  LET f[n \in 0..Len(s)] == IF n = 0 THEN <<>> ELSE InsertByP(f[n - 1], s[n])
  IN f[Len(s)]

\* (mutant) a sort that moves an element in front of its equals: not stable
InsertByEdgeFirst(s, x) ==
  LET k == Cardinality({j \in 1..Len(s) : s[j].edge > x.edge})
  IN SubSeq(s, 1, k) \o <<x>> \o SubSeq(s, k + 1, Len(s))

\* candidates.sort((a,b) => b.edge - a.edge): stable, descending in edge
InsertByEdge(s, x) ==
  LET k == Cardinality({j \in 1..Len(s) : s[j].edge >= x.edge})
  IN SubSeq(s, 1, k) \o <<x>> \o SubSeq(s, k + 1, Len(s))

SortByEdge(s) ==
  LET f[n \in 0..Len(s)] == IF n = 0 THEN <<>> ELSE InsertByEdge(f[n - 1], s[n])
  IN f[Len(s)]

chooseStrongest(p) ==
  LET best1 == SortByP(<<[label |-> "1", p |-> p.pH], [label |-> "X", p |-> p.pD],
                         [label |-> "2", p |-> p.pA]>>)[1]
      edge1 == best1.p - Third
      pU25 == p.pU25
      pO25 == Scale - pU25
      bestTot == IF pO25 >= pU25
                 THEN [market |-> "Over/Under 2.5", label |-> "Over 2.5", p |-> pO25]
                 ELSE [market |-> "Over/Under 2.5", label |-> "Under 2.5", p |-> pU25]
      edgeTot == bestTot.p - Half
      bestBTTS == IF p.pBTTS >= Half
                  THEN [market |-> "BTTS", label |-> "Yes", p |-> p.pBTTS]
                  ELSE [market |-> "BTTS", label |-> "No", p |-> Scale - p.pBTTS]
      edgeBTTS == bestBTTS.p - Half
      candidates == SortByEdge(
        <<[market |-> "1X2", label |-> best1.label, prob |-> best1.p,
           edge |-> edge1, note |-> ""],
          [market |-> bestTot.market, label |-> bestTot.label, prob |-> bestTot.p,
           edge |-> edgeTot, note |-> ""],
          [market |-> bestBTTS.market, label |-> bestBTTS.label, prob |-> bestBTTS.p,
           edge |-> edgeBTTS, note |-> ""]>>)
      top == candidates[1]
  IN IF top.edge >= EDGE_MIN THEN top
     ELSE [market |-> "1X2", label |-> best1.label, prob |-> best1.p, edge |-> edge1,
           note |-> "low-edge-fallback"]

\* Inputs of the selector: probabilities at and next to the values that give
\* an edge of 0 and an edge of EDGE_MIN, on either side of each market.
EdgeValues == {z + o : z \in {0, EDGE_MIN}, o \in (0 - EdgeWindow)..EdgeWindow}
Probs3 == {Third + e : e \in EdgeValues}
Probs2 == {Half + e : e \in EdgeValues} \cup {Half - e : e \in EdgeValues}
ProbInputs ==
  {[pH |-> h, pD |-> d, pA |-> Scale - h - d, pU25 |-> u, pBTTS |-> b] :
     h \in Probs3, d \in Probs3, u \in Probs2, b \in Probs2}

InitSelect ==
  /\ engine = "v5"
  /\ bound = [warm |-> 0, get |-> 0, fixtures |-> 0]
  /\ apiKey = TRUE
  /\ fallbackDemo = FALSE
  /\ today = 1
  /\ booted = FALSE
  /\ cronDue = FALSE
  /\ CACHE = InitCache
  /\ standingsCache = <<>>
  /\ formCache = {}
  /\ refresh = <<>>
  /\ reqs = <<>>
  /\ feed = <<>>
  /\ probs \in ProbInputs
  /\ chosen = NoPick
  /\ args = NoCall
  /\ result = NoCall
  /\ sched = NoSched

\* out = chooseStrongest(eg.lh, eg.la)
Select ==
  /\ chosen = NoPick
  /\ chosen' = chooseStrongest(probs)
  /\ UNCHANGED <<config, server, feed, probs, args, result, sched>>

NextSelect == Select

SpecSelect == InitSelect /\ [][NextSelect]_vars

(***************************************************************************)
(* Team ratings (v5.2.2): normTeam, canonicalKey, seedOf.  A name is a     *)
(* sequence of characters; keys are strings.                               *)
(***************************************************************************)
UpperCase == <<"A", "B", "C", "D", "E", "F", "G", "H", "I", "J", "K", "L", "M">> \o
             <<"N", "O", "P", "Q", "R", "S", "T", "U", "V", "W", "X", "Y", "Z">>
LowerCase == <<"a", "b", "c", "d", "e", "f", "g", "h", "i", "j", "k", "l", "m">> \o
             <<"n", "o", "p", "q", "r", "s", "t", "u", "v", "w", "x", "y", "z">>
Digits == {"0", "1", "2", "3", "4", "5", "6", "7", "8", "9"}
AlNum == {LowerCase[i] : i \in 1..Len(LowerCase)} \cup Digits

\* String.prototype.toLowerCase
toLowerCase(s) ==
  [i \in 1..Len(s) |->
     IF \E k \in 1..Len(UpperCase) : UpperCase[k] = s[i]
     THEN LowerCase[CHOOSE k \in 1..Len(UpperCase) : UpperCase[k] = s[i]]
     ELSE s[i]]

\* .replace(/[^a-z0-9]+/g, ' '): every run of other characters becomes one
\* space; inRun says that the character before s belongs to such a run
RECURSIVE ReplaceRuns(_, _)
ReplaceRuns(s, inRun) ==
  IF s = <<>> THEN <<>>
  ELSE IF s[1] \in AlNum THEN <<s[1]>> \o ReplaceRuns(Tail(s), FALSE)
  ELSE (IF inRun THEN <<>> ELSE <<" ">>) \o ReplaceRuns(Tail(s), TRUE)

\* String.prototype.trim
RECURSIVE trim(_)
trim(s) ==
  IF s = <<>> THEN <<>>
  ELSE IF s[1] = " " THEN trim(Tail(s))
  ELSE IF s[Len(s)] = " " THEN trim(SubSeq(s, 1, Len(s) - 1))
  ELSE s

\* the string made of the characters of s
RECURSIVE Join(_)
Join(s) == IF s = <<>> THEN "" ELSE s[1] \o Join(Tail(s))

normTeam(s) == Join(trim(ReplaceRuns(toLowerCase(s), FALSE)))

ALIAS ==
  ("paris saint germain" :> "psg") @@ ("paris saint germain fc" :> "psg") @@
  ("manchester city fc" :> "manchester city") @@
  ("manchester united fc" :> "manchester united") @@
  ("fc barcelona" :> "barcelona") @@
  ("fc bayern munich" :> "bayern munich") @@
  ("fc internazionale milano" :> "inter") @@
  ("fc internazionale" :> "inter") @@ ("juventus fc" :> "juventus") @@
  ("ac milan" :> "milan") @@ ("atletico de madrid" :> "atletico madrid") @@
  ("ssc napoli" :> "napoli") @@ ("as roma" :> "roma") @@
  ("tottenham hotspur" :> "tottenham") @@
  ("fenerbahce istanbul" :> "fenerbahce") @@
  ("galatasaray sk" :> "galatasaray") @@ ("besiktas jk" :> "besiktas")

canonicalKey(name) ==
  LET n == normTeam(name)
  IN IF n \in DOMAIN ALIAS THEN ALIAS[n] ELSE n

SEED_ELO ==
  ("psg" :> 1850) @@ ("paris saint germain" :> 1850) @@
  ("real madrid" :> 1850) @@ ("barcelona" :> 1820) @@
  ("manchester city" :> 1880) @@ ("liverpool" :> 1820) @@
  ("arsenal" :> 1800) @@ ("chelsea" :> 1750) @@
  ("manchester united" :> 1760) @@ ("bayern munich" :> 1900) @@
  ("inter" :> 1820) @@ ("juventus" :> 1800) @@ ("milan" :> 1780) @@
  ("atletico madrid" :> 1800) @@ ("napoli" :> 1780) @@ ("roma" :> 1740) @@
  ("tottenham" :> 1760) @@ ("galatasaray" :> 1700) @@
  ("fenerbahce" :> 1680) @@ ("besiktas" :> 1650) @@
  ("trabzonspor" :> 1620) @@ ("nantes" :> 1600)

\* Values of a property read that are not numbers: undefined, and the function
\* that every object literal inherits as its constructor property.
Undefined == -1
NativeFunction == -2

\* The properties that an object literal inherits from Object.prototype under a
\* key that normTeam can produce (lower case letters, digits and single spaces).
ObjectPrototype == {"constructor"}

\* obj[key] for an object literal obj
Property(obj, key) ==
  IF key \in DOMAIN obj THEN obj[key]
  ELSE IF key \in ObjectPrototype THEN NativeFunction
  ELSE Undefined

\* SEED_ELO[key] ?? SEED_ELO[normTeam(name)] ?? 1500
seedOf(name) ==
  LET first == Property(SEED_ELO, canonicalKey(name))
      second == Property(SEED_ELO, normTeam(name))
  IN IF first # Undefined THEN first
     ELSE IF second # Undefined THEN second
     ELSE 1500

\* Team names as the upstream may send them
NamePrefixes ==
  { <<>>, <<"F", "C", " ">>, <<"A", "C", " ">>, <<"A", "S", " ">>, <<" ">> }
NameBases ==
  { <<"P", "S", "G">>,
    <<"P", "a", "r", "i", "s", " ", "S", "a", "i", "n", "t", "-", "G", "e", "r", "m", "a", "i", "n">>,
    <<"M", "i", "l", "a", "n">>,
    <<"R", "o", "m", "a">>,
    <<"N", "a", "n", "t", "e", "s">>,
    <<"L", "e", "e", "d", "s", " ", "U", "n", "i", "t", "e", "d">>,
    <<"I", "n", "t", "e", "r">>,
    <<"F", "e", "n", "e", "r", "b", "a", "h", "c", "e">>,
    <<"C", "o", "n", "s", "t", "r", "u", "c", "t", "o", "r">>,
    <<>> }
NameSuffixes ==
  { <<>>, <<" ", "F", "C">>, <<" ", "I", "s", "t", "a", "n", "b", "u", "l">>, <<".">> }
TeamNames == {a \o b \o c : a \in NamePrefixes, b \in NameBases, c \in NameSuffixes}

\* No server activity: a pure function is called on its own
Idle ==
  /\ bound = [warm |-> 0, get |-> 0, fixtures |-> 0]
  /\ apiKey = TRUE
  /\ fallbackDemo = FALSE
  /\ today = 1
  /\ booted = FALSE
  /\ cronDue = FALSE
  /\ CACHE = InitCache
  /\ standingsCache = <<>>
  /\ formCache = {}
  /\ refresh = <<>>
  /\ reqs = <<>>
  /\ feed = <<>>
  /\ probs = NoProbs
  /\ chosen = NoPick
  /\ result = NoCall
  /\ sched = NoSched

InitSeed ==
  /\ engine = "v5"
  /\ Idle
  /\ args \in {[fn |-> "seedOf", name |-> n] : n \in TeamNames}

CallSeedOf ==
  /\ args.fn = "seedOf"
  /\ result = NoCall
  /\ result' = [fn |-> "seedOf", value |-> seedOf(args.name)]
  /\ UNCHANGED <<config, server, feed, probs, chosen, args, sched>>

NextSeed == CallSeedOf

SpecSeed == InitSeed /\ [][NextSeed]_vars

(***************************************************************************)
(* expectedGoalsAdvanced (v5.2.2).  Goals per match, the form strength,    *)
(* the form factors and the split are counted in thousandths; tanh and the *)
(* fourth root are computed to about that precision.  NaN is the value of  *)
(* an arithmetic operation on a value that is not a number; Math.max and   *)
(* Math.min return it when they are given it, and every comparison with    *)
(* it is false.                                                            *)
(***************************************************************************)
STRONG_DIFF_TILT == 220
HOME_ELO == 65
NaN == -1000000

\* String.prototype.includes, on character sequences
includes(s, sub) ==
  \E i \in 1..(Len(s) - Len(sub) + 1) : SubSeq(s, i, i + Len(sub) - 1) = sub

\* "u-umlaut" stands for the one character u with diaeresis
leagueBaseGpm(league) ==
  LET k == toLowerCase(league) IN
  IF includes(k, <<"s", "u", "p", "e", "r", " ", "l", "i", "g">>) THEN 2700
  ELSE IF includes(k, <<"s", "u-umlaut", "p", "e", "r", " ", "l", "i", "g">>) THEN 2700
  ELSE IF includes(k, <<"p", "r", "e", "m", "i", "e", "r">>) THEN 2900
  ELSE IF includes(k, <<"l", "a", " ", "l", "i", "g", "a">>) THEN 2600
  ELSE IF includes(k, <<"b", "u", "n", "d", "e", "s", "l", "i", "g", "a">>) THEN 3100
  ELSE IF includes(k, <<"s", "e", "r", "i", "e", " ", "a">>) THEN 2500
  ELSE IF includes(k, <<"l", "i", "g", "u", "e", " ", "1">>) THEN 2750
  ELSE IF includes(k, <<"e", "r", "e", "d", "i", "v", "i", "s", "i", "e">>) THEN 3000
  ELSE IF includes(k, <<"p", "r", "i", "m", "e", "i", "r", "a">>) THEN 2500
  ELSE 2650

Max2(a, b) == IF a >= b THEN a ELSE b
Min2(a, b) == IF a <= b THEN a ELSE b

\* Math.max(lo, Math.min(hi, x))
Clamp(lo, hi, x) == IF x = NaN THEN NaN ELSE Max2(lo, Min2(hi, x))

\* fToFactor: 0.98 + 0.10 * f, kept within [0.85, 1.15]
fToFactor(f) == Clamp(850, 1150, 980 + (f \div 10))

\* Math.tanh(d / 650), by the continued fraction x / (1 + x^2 / (3 + x^2 / (5 + x^2 / 7)))
tanh650(d) ==
  LET ax == ((IF d < 0 THEN 0 - d ELSE d) * 1000) \div 650
      x2 == (ax * ax) \div 1000
      t3 == 5000 + ((x2 * 1000) \div 7000)
      t2 == 3000 + ((x2 * 1000) \div t3)
      t1 == 1000 + ((x2 * 1000) \div t2)
      th == (ax * 1000) \div t1
  IN IF d < 0 THEN 0 - th ELSE th

\* Math.pow(r, 0.25) for r in thousandths, to hundredths
pow025(r) ==
  LET c == r \div 10
      q == CHOOSE q \in 0..200 : q * q * q * q <= c * 1000000
                                 /\ (q + 1) * (q + 1) * (q + 1) * (q + 1) > c * 1000000
  IN q * 10

\* lh and la before the tilt and the final clamp; rh, ra are the two seeds
GoalsBeforeTilt(rh, ra, leagueName, homeForm, awayForm) ==
  LET baseG == leagueBaseGpm(leagueName)
      seedDiff == (rh + HOME_ELO) - ra
      homeFormFac == fToFactor(homeForm.formStrength)
      awayFormFac == fToFactor(awayForm.formStrength)
      split0 == 500 + ((120 * tanh650(seedDiff)) \div 1000)
      relForm == (homeFormFac * 1000) \div awayFormFac
      split == Clamp(360, 640, (split0 * pow025(relForm)) \div 1000)
  IN [lh |-> (((((baseG * split) \div 1000) * (2200 + seedDiff)) \div 2200)
                * homeFormFac) \div 1000,
      la |-> (((((baseG * (1000 - split)) \div 1000) * (2200 - seedDiff)) \div 2200)
                * awayFormFac) \div 1000,
      seedDiff |-> seedDiff]

\* Math.max(0.15, Math.min(3.2, x))
ClampGoals(x) == Clamp(150, 3200, x)

expectedGoalsAdvanced(homeName, awayName, leagueName, homeForm, awayForm) ==
  LET rh == seedOf(homeName)
      ra == seedOf(awayName)
  IN IF rh < 0 \/ ra < 0
     THEN \* seedDiff is NaN, and so is everything computed from it
          [lh |-> NaN, la |-> NaN, seedDiff |-> NaN]
     ELSE LET g == GoalsBeforeTilt(rh, ra, leagueName, homeForm, awayForm)
              tilt == seedOf(homeName) - seedOf(awayName) >= STRONG_DIFF_TILT
          IN [lh |-> ClampGoals(IF tilt THEN (g.lh * 110) \div 100 ELSE g.lh),
              la |-> ClampGoals(IF tilt THEN (g.la * 90) \div 100 ELSE g.la),
              seedDiff |-> g.seedDiff]

\* Inputs of expectedGoalsAdvanced
GoalNames ==
  { <<"P", "S", "G">>,
    <<"I", "n", "t", "e", "r">>,
    <<"A", "C", " ", "M", "i", "l", "a", "n">>,
    <<"F", "e", "n", "e", "r", "b", "a", "h", "c", "e">>,
    <<"N", "a", "n", "t", "e", "s">>,
    <<"L", "e", "e", "d", "s", " ", "U", "n", "i", "t", "e", "d">>,
    <<"C", "o", "n", "s", "t", "r", "u", "c", "t", "o", "r">> }
LeagueNames ==
  { <<"E", "n", "g", "l", "a", "n", "d", " ", "P", "r", "e", "m", "i", "e", "r", " ", "L", "e", "a", "g", "u", "e">>,
    <<"T", "u", "r", "k", "e", "y", " ", "S", "u-umlaut", "p", "e", "r", " ", "L", "i", "g">>,
    <<"F", "r", "a", "n", "c", "e", " ", "L", "i", "g", "u", "e", " ", "1">>,
    <<"I", "t", "a", "l", "y", " ", "S", "e", "r", "i", "e", " ", "B">> }
FormStrengths == {0, 900, 1720}

InitGoals ==
  /\ engine = "v5"
  /\ Idle
  /\ args \in {[fn |-> "expectedGoalsAdvanced", homeName |-> h, awayName |-> a,
                leagueName |-> l, homeForm |-> [formStrength |-> hf],
                awayForm |-> [formStrength |-> af]] :
               h \in GoalNames, a \in GoalNames, l \in LeagueNames,
               hf \in FormStrengths, af \in FormStrengths}

CallExpectedGoals ==
  /\ args.fn = "expectedGoalsAdvanced"
  /\ result = NoCall
  /\ result' = [fn |-> "expectedGoalsAdvanced",
                value |-> expectedGoalsAdvanced(args.homeName, args.awayName,
                            args.leagueName, args.homeForm, args.awayForm)]
  /\ UNCHANGED <<config, server, feed, probs, chosen, args, sched>>

NextGoals == CallExpectedGoals

SpecGoals == InitGoals /\ [][NextGoals]_vars

(***************************************************************************)
(* Form statistics: formStats (v3, v4) and formStatsAdvanced (v5.2.2).     *)
(* A match carries the ids of its home and away team and the full-time     *)
(* score.  A quotient is counted in thousandths.                           *)
(***************************************************************************)
MaxMatches == 5      \* length of the list of recent matches

\* x / y
Quotient(x, y) == (x * 1000) \div y

\* (mutant) the divisor is the size of the last-5 window
gPlayedWindow(matches) == 5

\* matches.length || 1
gPlayed(matches) == IF Len(matches) # 0 THEN Len(matches) ELSE 1

matchPoints(forGoals, agGoals) ==
  IF forGoals > agGoals THEN 3 ELSE IF forGoals = agGoals THEN 1 ELSE 0

\* formStats of v3 and v4: standingsMap is a function from team ids to positions
formStats(teamId, matches, standingsMap) ==
  LET sums[n \in 0..Len(matches)] ==
        IF n = 0
        THEN [pts |-> 0, gf |-> 0, ga |-> 0, homeGF |-> 0, homeGA |-> 0,
              awayGF |-> 0, awayGA |-> 0, oppPosSum |-> 0, oppCount |-> 0]
        ELSE LET m == matches[n]
                 s == sums[n - 1]
                 isHome == m.homeTeam = teamId
                 h == m.home
                 a == m.away
                 forGoals == IF isHome THEN h ELSE a
                 agGoals == IF isHome THEN a ELSE h
                 oppId == IF isHome THEN m.awayTeam ELSE m.homeTeam
                 known == oppId # 0 /\ oppId \in DOMAIN standingsMap
             IN [pts |-> s.pts + matchPoints(forGoals, agGoals),
                 gf |-> s.gf + forGoals,
                 ga |-> s.ga + agGoals,
                 homeGF |-> s.homeGF + (IF isHome THEN h ELSE 0),
                 homeGA |-> s.homeGA + (IF isHome THEN a ELSE 0),
                 awayGF |-> s.awayGF + (IF isHome THEN 0 ELSE a),
                 awayGA |-> s.awayGA + (IF isHome THEN 0 ELSE h),
                 oppPosSum |-> s.oppPosSum + (IF known THEN standingsMap[oppId] ELSE 0),
                 oppCount |-> s.oppCount + (IF known THEN 1 ELSE 0)]
      s == sums[Len(matches)]
      played == gPlayed(matches)
      homeCount == Cardinality({i \in 1..Len(matches) : matches[i].homeTeam = teamId})
      homeGP == IF homeCount # 0 THEN homeCount ELSE 1
      awayGP == IF played - homeGP # 0 THEN played - homeGP ELSE 1
  IN [ppm |-> Quotient(s.pts, played),
      gfpm |-> Quotient(s.gf, played),
      gapm |-> Quotient(s.ga, played),
      homeGFpm |-> Quotient(s.homeGF, homeGP),
      homeGApm |-> Quotient(s.homeGA, homeGP),
      awayGFpm |-> Quotient(s.awayGF, awayGP),
      awayGApm |-> Quotient(s.awayGA, awayGP),
      oppAvgPos |-> IF s.oppCount # 0 THEN Quotient(s.oppPosSum, s.oppCount) ELSE 10000,
      gPlayed |-> played]

\* recency weights of formStatsAdvanced, and the weight past the fifth match
REC == <<1000, 920, 850, 780, 720>>

\* formStatsAdvanced: standingsPack is [size, map]; size 0 stands for a pack
\* without a size
formStatsAdvanced(teamId, matches, standingsPack) ==
  LET size == IF standingsPack.size # 0 THEN standingsPack.size ELSE 20
      posMap == standingsPack.map
      half == (size + 1) \div 2     \* Math.ceil(size/2)
      sums[n \in 0..Len(matches)] ==
        IF n = 0
        THEN [pts |-> 0, gf |-> 0, ga |-> 0, oppAvg |-> 0, oppCnt |-> 0, adjScore |-> 0]
        ELSE LET m == matches[n]
                 s == sums[n - 1]
                 isHome == m.homeTeam = teamId
                 h == m.home
                 a == m.away
                 forGoals == IF isHome THEN h ELSE a
                 agGoals == IF isHome THEN a ELSE h
                 ptsThis == matchPoints(forGoals, agGoals)
                 oppId == IF isHome THEN m.awayTeam ELSE m.homeTeam
                 oppPos == IF oppId # 0 /\ oppId \in DOMAIN posMap /\ posMap[oppId] # 0
                           THEN posMap[oppId] ELSE half
                 norm == Quotient(size - oppPos, size) - 500
                 oppFactor == 1000 + ((norm * 8) \div 10)
                 venueFactor == IF isHome THEN 1000 ELSE 1150
                 w == IF n <= Len(REC) THEN REC[n] ELSE 700
                 score == (((ptsThis * oppFactor * venueFactor) \div 1000) * w) \div 1000
             IN [pts |-> s.pts + ptsThis,
                 gf |-> s.gf + forGoals,
                 ga |-> s.ga + agGoals,
                 oppAvg |-> s.oppAvg + oppPos,
                 oppCnt |-> s.oppCnt + 1,
                 adjScore |-> s.adjScore + score]
      s == sums[Len(matches)]
      played == gPlayed(matches)
  IN [ppm |-> Quotient(s.pts, played),
      gfpm |-> Quotient(s.gf, played),
      gapm |-> Quotient(s.ga, played),
      oppAvgPos |-> IF s.oppCnt # 0 THEN Quotient(s.oppAvg, s.oppCnt) ELSE half * 1000,
      formStrength |-> s.adjScore \div 12]

\* Inputs: the recent matches of team 1 against team 2, and the standings
RecentMatches ==
  [homeTeam : {1}, awayTeam : {2}, home : {0, 2}, away : {0, 2}] \cup
  [homeTeam : {2}, awayTeam : {1}, home : {0, 2}, away : {0, 2}]
MatchLists == UNION { [1..n -> RecentMatches] : n \in 0..MaxMatches }
StandingsMaps == { <<>>, <<7, 4>> }    \* no table; team 1 is 7th, team 2 is 4th

InitForm ==
  /\ engine \in Engines
  /\ Idle
  /\ \E ms \in MatchLists, sm \in StandingsMaps :
       args = [fn |-> IF engine = "v5" THEN "formStatsAdvanced" ELSE "formStats",
               teamId |-> 1, matches |-> ms,
               standings |-> IF engine = "v5"
                             THEN [size |-> IF sm = <<>> THEN 20 ELSE 18, map |-> sm]
                             ELSE sm]

CallFormStats ==
  /\ args.fn = "formStats"
  /\ result = NoCall
  /\ result' = [fn |-> "formStats",
                value |-> formStats(args.teamId, args.matches, args.standings)]
  /\ UNCHANGED <<config, server, feed, probs, chosen, args, sched>>

CallFormStatsAdvanced ==
  /\ args.fn = "formStatsAdvanced"
  /\ result = NoCall
  /\ result' = [fn |-> "formStatsAdvanced",
                value |-> formStatsAdvanced(args.teamId, args.matches, args.standings)]
  /\ UNCHANGED <<config, server, feed, probs, chosen, args, sched>>

NextForm == CallFormStats \/ CallFormStatsAdvanced

SpecForm == InitForm /\ [][NextForm]_vars

(***************************************************************************)
(* probs1X2 and sharpen3.  Expected goals are counted in thousandths, a    *)
(* Poisson probability in ten-thousandths.  A quotient x / s that the code *)
(* returns is kept as the pair [num |-> x, den |-> s].                     *)
(***************************************************************************)
\* Math.exp(-lam): the reciprocal of the series of exp(lam)
expNeg(lam) ==
  LET term[k \in 0..20] == IF k = 0 THEN 10000 ELSE (term[k - 1] * lam) \div (1000 * k)
      sum[k \in 0..20] == IF k = 0 THEN term[0] ELSE sum[k - 1] + term[k]
  IN 100000000 \div sum[20]

\* Math.exp(-lam) * Math.pow(lam, k) / fac(k), built up factor by factor
poisPmf(lam, k) ==
  LET p[j \in 0..k] == IF j = 0 THEN expNeg(lam) ELSE (p[j - 1] * lam) \div (1000 * j)
  IN p[k]

\* The double loop over the scores h, a in 0..cap: the sum of
\* poisPmf(lh, h) * poisPmf(la, a) over the pairs whose sign of h - a is sgn
ScoreSum(lh, la, cap, sgn) ==
  LET ph == [h \in 0..cap |-> poisPmf(lh, h)]
      pa == [a \in 0..cap |-> poisPmf(la, a)]
      Hit(h, a) == (sgn = 1 /\ h > a) \/ (sgn = 0 /\ h = a) \/ (sgn = -1 /\ h < a)
      inner[h \in 0..cap, n \in 0..(cap + 1)] ==
        IF n = 0 THEN 0
        ELSE inner[h, n - 1] + (IF Hit(h, n - 1) THEN (ph[h] * pa[n - 1]) \div 100 ELSE 0)
      outer[n \in 0..(cap + 1)] ==
        IF n = 0 THEN 0 ELSE outer[n - 1] + inner[n - 1, cap + 1]
  IN outer[cap + 1]

\* (mutant) the three sums returned as they are, not divided by their total
probs1X2Unscaled(lh, la) ==
  LET cap == 12
      pH == ScoreSum(lh, la, cap, 1)
      pD == ScoreSum(lh, la, cap, 0)
      pA == ScoreSum(lh, la, cap, -1)
  IN [pH |-> [num |-> pH, den |-> 1000000], pD |-> [num |-> pD, den |-> 1000000],
      pA |-> [num |-> pA, den |-> 1000000]]

probs1X2(lh, la) ==
  LET cap == 12
      pH == ScoreSum(lh, la, cap, 1)
      pD == ScoreSum(lh, la, cap, 0)
      pA == ScoreSum(lh, la, cap, -1)
      s == IF pH + pD + pA # 0 THEN pH + pD + pA ELSE 1
  IN [pH |-> [num |-> pH, den |-> s], pD |-> [num |-> pD, den |-> s],
      pA |-> [num |-> pA, den |-> s]]

\* Math.pow(p, tau) for the default tau = SHARPEN_TAU_1X2 = 1.25, p a quotient
powTau(p) ==
  LET v == Quotient(p.num, p.den)
  IN (v * pow025(v)) \div 1000

sharpen3(pH, pD, pA) ==
  LET a == powTau(pH)
      b == powTau(pD)
      c == powTau(pA)
      Z == IF a + b + c # 0 THEN a + b + c ELSE 1
  IN [pH |-> [num |-> a, den |-> Z], pD |-> [num |-> b, den |-> Z],
      pA |-> [num |-> c, den |-> Z]]

\* Expected goals inside the clamped range [0.15, 3.2]
Lambdas == {150, 400, 800, 1200, 1400, 1700, 2200, 2700, 3200}

InitProbs ==
  /\ engine = "v5"
  /\ Idle
  /\ args \in {[fn |-> "probs1X2", lh |-> h, la |-> a] : h \in Lambdas, a \in Lambdas}

\* the first two statements of chooseStrongest
CallProbs ==
  /\ args.fn = "probs1X2"
  /\ result = NoCall
  /\ LET raw == probs1X2(args.lh, args.la)
     IN result' = [fn |-> "probs1X2", raw |-> raw,
                   sharp |-> sharpen3(raw.pH, raw.pD, raw.pA)]
  /\ UNCHANGED <<config, server, feed, probs, chosen, args, sched>>

NextProbs == CallProbs

SpecProbs == InitProbs /\ [][NextProbs]_vars

(***************************************************************************)
(* decidePick (v4), from the market probabilities on: p holds the 1X2      *)
(* probabilities of probs1X2, P(total goals <= 2) and P(both teams score), *)
(* in units of 1 / Scale, as the first lines of the function computed them *)
(* from lh, la.                                                            *)
(***************************************************************************)
\* a literal probability given in percent
Percent(n) == (n * Scale) \div 100

\* (mutant) the goals markets are tried whatever the 1X2 probability is
oneX2RiskyAlways(best1x2) == TRUE

oneX2Risky(best1x2) == best1x2.p < Percent(58)

decidePick(p) ==
  LET best1x2 == SortByP(<<[label |-> "1", p |-> p.pH], [label |-> "X", p |-> p.pD],
                           [label |-> "2", p |-> p.pA]>>)[1]
      pU25 == p.pU25
      pO25 == Scale - pU25
      pBTTS == p.pBTTS
      bestBTTS == IF pBTTS >= Half
                  THEN [market |-> "BTTS", label |-> "Yes", prob |-> pBTTS]
                  ELSE [market |-> "BTTS", label |-> "No", prob |-> Scale - pBTTS]
      bestTotals == IF pO25 >= pU25
                    THEN [market |-> "Over/Under 2.5", label |-> "Over 2.5", prob |-> pO25]
                    ELSE [market |-> "Over/Under 2.5", label |-> "Under 2.5", prob |-> pU25]
      fallback == [market |-> "1X2", label |-> best1x2.label, prob |-> best1x2.p]
  IN IF oneX2Risky(best1x2)
     THEN IF bestTotals.prob >= Percent(60) THEN bestTotals
          ELSE IF bestBTTS.prob >= Percent(58) THEN bestBTTS
          ELSE fallback
     ELSE fallback

\* Inputs of decidePick: probabilities at and next to each threshold of the
\* policy, on either side of each market, and values far from all of them.
PickProbs1X2 ==
  {[pH |-> h, pD |-> d, pA |-> Scale - h - d] :
     h \in {Third, Percent(58) - 1, Percent(58), Percent(58) + 1},
     d \in {Scale - Percent(58) - 1, Scale - Percent(58), Third, 2 * Third - Percent(58),
            Percent(58) - 1, Percent(58), Percent(58) + 1}}
PickProbsTotals ==
  {Half} \cup {Percent(60) + o : o \in -1..1} \cup {Scale - Percent(60) + o : o \in -1..1}
PickProbsBTTS ==
  {Half} \cup {Percent(58) + o : o \in -1..1} \cup {Scale - Percent(58) + o : o \in -1..1}
PickInputs ==
  {[fn |-> "decidePick", pH |-> t.pH, pD |-> t.pD, pA |-> t.pA, pU25 |-> u, pBTTS |-> b] :
     t \in {x \in PickProbs1X2 : x.pA >= 0}, u \in PickProbsTotals, b \in PickProbsBTTS}

InitPick ==
  /\ engine = "v4"
  /\ Idle
  /\ args \in PickInputs

\* const pick = decidePick(lh, la)
CallDecidePick ==
  /\ args.fn = "decidePick"
  /\ result = NoCall
  /\ result' = [fn |-> "decidePick", pick |-> decidePick(args)]
  /\ UNCHANGED <<config, server, feed, probs, chosen, args, sched>>

NextPick == CallDecidePick

SpecPick == InitPick /\ [][NextPick]_vars

(***************************************************************************)
(* Rate-limited server (src/unnamed/part_004): the prediction queue of one *)
(* sourceApiFootballToday call, from the point where the fixture list has  *)
(* arrived (non-empty) and the base rows are built.  sched holds the       *)
(* variables of that call:                                                 *)
(*   rows      the base rows; fx is the position in the upstream list and  *)
(*             stands for the fields that tell rows apart (league, home,   *)
(*             away); fixtureId 0 is an absent id; prediction "-" is the   *)
(*             dash the row starts with                                    *)
(*   done, inFlight, idx, used     the counters of the queue               *)
(*   calls[k]  the runOne call for row k: st is "none" (not called),       *)
(*             "returned" (returned before the try block), "first"         *)
(*             (awaiting the first response), "backoff" (awaiting the      *)
(*             RETRY_429_DELAY_MS timer), "retry" (awaiting the second     *)
(*             response) or "settled"; sent counts the HTTP requests;      *)
(*             first and second are the outcomes of the two requests       *)
(*   pc        where tick stands: "start", "delay" (awaiting the           *)
(*             PREDICTION_DELAY_MS timer inside the while loop), "timer"   *)
(*             (setTimeout(tick, 250) is pending) or "resolved"            *)
(*   cached    the rows written by saveCache                               *)
(*   conc, max PREDICTION_CONCURRENCY, PREDICTION_MAX of the process       *)
(* Timers and responses arrive in any order.                               *)
(***************************************************************************)
MaxRows == 3            \* length of the fixture list
MaxConcurrency == 2     \* PREDICTION_CONCURRENCY is one of 1..MaxConcurrency
MaxPredictionMax == 2   \* PREDICTION_MAX is one of 1..MaxPredictionMax

ApiFixtures == {[fixtureId |-> id, kickoff |-> k] : id \in {0, 1}, k \in {18, 20}}

\* What a predictions request can come back as: 200 with a winner, 200 without
\* a prediction, HTTP 429, or any other failure (another status, a rejected
\* fetch, a body that is not JSON)
PredictionOutcomes == {"ok", "empty", "429", "error"}

\* const rows = fixtures.map(...)
BaseRows(fixtures) ==
  [k \in 1..Len(fixtures) |->
     [fx |-> k, fixtureId |-> fixtures[k].fixtureId, kickoff |-> fixtures[k].kickoff,
      prediction |-> "-", confidence |-> ""]]

NoRun == [st |-> "none", sent |-> 0, first |-> "none", second |-> "none"]

StartOfQueue(fixtures, conc, max) ==
  [pc |-> "start", conc |-> conc, max |-> max, rows |-> BaseRows(fixtures),
   done |-> 0, inFlight |-> 0, idx |-> 0, used |-> 0,
   calls |-> [k \in 1..Len(fixtures) |-> NoRun], cached |-> <<>>]

\* the body of the try block after a response: r.prediction and r.confidence
\* are set from a body that has them
SetPrediction(r, out) ==
  IF out = "ok" THEN [r EXCEPT !.prediction = "1", !.confidence = "pct"] ELSE r

\* (mutant) the payload keeps only the rows that got a prediction
PayloadPredictedOnly(rows) ==
  LET kept == SelectSeq(rows, LAMBDA r : r.prediction # "-")
  IN [k \in 1..Len(kept) |->
        [fx |-> kept[k].fx, kickoff |-> kept[k].kickoff,
         prediction |-> kept[k].prediction, confidence |-> kept[k].confidence]]

\* rows.map(({fixtureId, ...rest}) => rest)
Payload(rows) ==
  [k \in 1..Len(rows) |->
     [fx |-> rows[k].fx, kickoff |-> rows[k].kickoff,
      prediction |-> rows[k].prediction, confidence |-> rows[k].confidence]]

\* runOne(r).finally(() => { inFlight -= 1; })
Settled(s) == [s EXCEPT !.inFlight = @ - 1]

\* runOne up to its first await: the two early returns, or used += 1 and the
\* first request
runOne(s, k) ==
  IF s.rows[k].fixtureId = 0 \/ s.used >= s.max
  THEN [s EXCEPT !.calls[k].st = "returned"]
  ELSE [s EXCEPT !.used = @ + 1, !.calls[k].st = "first", !.calls[k].sent = 1]

\* the finally block of runOne, and the callback on its promise
Complete(s, k) == Settled([s EXCEPT !.done = @ + 1, !.calls[k].st = "settled"])

\* (mutant) a new call is launched whatever the number in flight
CanLaunchAlways(s) == TRUE

\* while (inFlight < PREDICTION_CONCURRENCY)
CanLaunch(s) == s.inFlight < s.conc

\* (mutant) every failure is retried
RetriableAny(out) == out \in {"429", "error"}

\* if (e.status === 429)
Retriable(out) == out = "429"

\* resolve(): sourceApiFootballToday returns the payload, collectToday sorts it
\* (by kickoff; the rows of the model tie on league and home) and warm saves it
Resolve(s) == [s EXCEPT !.pc = "resolved", !.cached = SortRows(Payload(s.rows))]

\* tick, from the head of its while loop to its next await or its end.  A
\* call that returned before its try block has settled when tick awaits the
\* delay.  next() past the end of rows returns undefined whatever idx is: idx
\* is kept at the length of rows there.
tick(s) ==
  IF CanLaunch(s) /\ s.idx < Len(s.rows)
  THEN LET k == s.idx + 1
           t == runOne([s EXCEPT !.idx = k, !.inFlight = @ + 1], k)
       IN [(IF t.calls[k].st = "returned" THEN Settled(t) ELSE t) EXCEPT !.pc = "delay"]
  ELSE IF s.done >= Min2(Len(s.rows), s.max) THEN Resolve(s)
  ELSE [s EXCEPT !.pc = "timer"]

InitSched ==
  /\ engine = "rate-limited"
  /\ bound = [warm |-> 0, get |-> 0, fixtures |-> 0]
  /\ apiKey = TRUE
  /\ fallbackDemo = FALSE
  /\ today = 1
  /\ booted = FALSE
  /\ cronDue = FALSE
  /\ CACHE = InitCache
  /\ standingsCache = <<>>
  /\ formCache = {}
  /\ refresh = <<>>
  /\ reqs = <<>>
  /\ feed = <<>>
  /\ probs = NoProbs
  /\ chosen = NoPick
  /\ args = NoCall
  /\ result = NoCall
  /\ sched \in {StartOfQueue(f, c, m) :
                  f \in UNION {[1..n -> ApiFixtures] : n \in 1..MaxRows},
                  c \in 1..MaxConcurrency, m \in 1..MaxPredictionMax}

\* await scheduler(): tick() is called
StartScheduler ==
  /\ sched.pc = "start"
  /\ sched' = tick(sched)
  /\ UNCHANGED <<config, server, feed, probs, chosen, args, result>>

\* the PREDICTION_DELAY_MS timer of the while loop fires
DelayElapsed ==
  /\ sched.pc = "delay"
  /\ sched' = tick(sched)
  /\ UNCHANGED <<config, server, feed, probs, chosen, args, result>>

\* setTimeout(tick, 250) fires
TimerFired ==
  /\ sched.pc = "timer"
  /\ sched' = tick(sched)
  /\ UNCHANGED <<config, server, feed, probs, chosen, args, result>>

\* the response of a predictions request arrives
PredictionResponse(k, out) ==
  /\ sched.pc # "none"
  /\ k \in 1..Len(sched.rows)
  /\ sched.calls[k].st \in {"first", "retry"}
  /\ sched' =
       IF sched.calls[k].st = "first"
       THEN LET s == [sched EXCEPT !.calls[k].first = out]
            IN IF out \in {"ok", "empty"}
               THEN Complete([s EXCEPT !.rows[k] = SetPrediction(@, out)], k)
               ELSE IF Retriable(out) THEN [s EXCEPT !.calls[k].st = "backoff"]
               ELSE Complete(s, k)
       ELSE Complete([sched EXCEPT !.calls[k].second = out,
                                   !.rows[k] = SetPrediction(@, out)], k)
  /\ UNCHANGED <<config, server, feed, probs, chosen, args, result>>

\* the RETRY_429_DELAY_MS timer fires: the request is sent once more
BackoffElapsed(k) ==
  /\ sched.pc # "none"
  /\ k \in 1..Len(sched.rows)
  /\ sched.calls[k].st = "backoff"
  /\ sched' = [sched EXCEPT !.calls[k].st = "retry", !.calls[k].sent = @ + 1]
  /\ UNCHANGED <<config, server, feed, probs, chosen, args, result>>

NextSched ==
  \/ StartScheduler
  \/ DelayElapsed
  \/ TimerFired
  \/ \E k \in 1..MaxRows, out \in PredictionOutcomes : PredictionResponse(k, out)
  \/ \E k \in 1..MaxRows : BackoffElapsed(k)

SpecSched == InitSched /\ [][NextSched]_vars

\* Every timer fires and every request is answered
SchedFairness ==
  /\ WF_vars(StartScheduler)
  /\ WF_vars(DelayElapsed)
  /\ WF_vars(TimerFired)
  /\ \A k \in 1..MaxRows :
       /\ WF_vars(BackoffElapsed(k))
       /\ WF_vars(\E out \in PredictionOutcomes : PredictionResponse(k, out))

SpecSchedFair == InitSched /\ [][NextSched]_vars /\ SchedFairness

(***************************************************************************)
(* Vocabulary of the claims.                                               *)
(***************************************************************************)
Warms == 1..Len(refresh)
Requests == 1..Len(reqs)
InFlight == {r \in Warms : refresh[r].pc \notin {"done", "failed"}}

(***************************************************************************)
(* C1.  If a GET /api/today request started and completed on local date    *)
(* D, every later GET /api/today request that starts while the date is     *)
(* still D performs no upstream fixture-list fetch (it awaits no           *)
(* warmCache) and responds with a cache whose date is D.                   *)
(* The code does not keep this: a warmCache that started on an earlier     *)
(* date and is still in flight assigns the slot its own, older date when   *)
(* it returns, and the next request finds the slot stale again.            *)
(***************************************************************************)
C1_SameDayServedFromCache ==
  \A q \in Requests :
    reqs[q].after =>
      /\ reqs[q].warm = 0
      /\ reqs[q].done => reqs[q].resp.date = reqs[q].d

(***************************************************************************)
(* C2.  At most one cache refresh (warmCache) is in flight at any time.    *)
(* The code has no guard: the boot warm, the cron job and every request    *)
(* that reads a stale date each start their own fetchFixturesToday.        *)
(***************************************************************************)
C2_SingleFlight == Cardinality(InFlight) <= 1

(***************************************************************************)
(* C3 as stated.  When the cache holds date D and the local date is D+1,   *)
(* the first GET /api/today request of D+1 triggers exactly one refresh    *)
(* with one upstream fixture-list fetch, and the cache it responds with    *)
(* has date D+1.                                                           *)
(***************************************************************************)
AfterRollover(q) ==
  reqs[q].first /\ reqs[q].prev >= 1 /\ reqs[q].prev = reqs[q].d - 1

C3_RolloverOneFetch ==
  \A q \in Requests :
    AfterRollover(q) =>
      /\ reqs[q].warm \in Warms
      /\ refresh[reqs[q].warm].lists = 1
      /\ reqs[q].done => reqs[q].resp.date = reqs[q].d

(***************************************************************************)
(* C3, amended.  When the cache holds date D and the local date is D+1,    *)
(* the first GET /api/today request of D+1 awaits exactly one warmCache,   *)
(* which sends one upstream fixture-list request when an API key is        *)
(* configured and none without a key; the request responds with the slot   *)
(* that warmCache assigned, whose date is D+1, or, when the refresh threw, *)
(* the local date at the time it threw.                                    *)
(***************************************************************************)
C3_RolloverOneRefresh ==
  \A q \in Requests :
    AfterRollover(q) =>
      /\ reqs[q].warm \in Warms
      /\ refresh[reqs[q].warm].req = q
      /\ refresh[reqs[q].warm].lists = IF apiKey THEN 1 ELSE 0
      /\ reqs[q].done =>
           /\ reqs[q].resp.by = reqs[q].warm
           /\ reqs[q].resp.date = IF reqs[q].resp.error THEN reqs[q].e ELSE reqs[q].d

C3_Witness ==
  \E q \in Requests :
    /\ AfterRollover(q)
    /\ apiKey
    /\ reqs[q].done
    /\ ~reqs[q].resp.error
    /\ reqs[q].resp.date = reqs[q].d
    /\ reqs[q].resp.rows # <<>>

(***************************************************************************)
(* C4.  The cache slot, and every response body read from it, is either    *)
(* the initial empty cache or the complete result of one finished          *)
(* warmCache: the error value of a refresh that threw, or the date and     *)
(* the full, sorted rows list (one row per fixture of its list inside the  *)
(* kickoff window, or the demo row) of a refresh that returned; never      *)
(* rows that a refresh in progress is still filling.                       *)
(***************************************************************************)
WindowFixtures(arr) == {k \in 1..Len(arr) : InWindow(arr[k])}

CompleteRows(rows, arr) ==
  \/ rows = <<DemoRow>> /\ fallbackDemo /\ WindowFixtures(arr) = {}
  \/ /\ Len(rows) = Cardinality(WindowFixtures(arr))
     /\ {rows[j].fx : j \in 1..Len(rows)} = WindowFixtures(arr)
     /\ \A j, k \in 1..Len(rows) : j < k => rows[j].kickoff <= rows[k].kickoff

CompleteCache(c) ==
  \/ c = InitCache
  \/ /\ c.by \in Warms
     /\ refresh[c.by].pc \in {"done", "failed"}
     /\ c.savedAt >= refresh[c.by].date
     /\ refresh[c.by].pc = "failed" => c.error /\ c.rows = <<>> /\ c.date = c.savedAt
     /\ refresh[c.by].pc = "done" =>
          /\ ~c.error
          /\ c.date = refresh[c.by].date
          /\ CompleteRows(c.rows, refresh[c.by].arr)

C4_AtomicSwap ==
  /\ CompleteCache(CACHE)
  /\ \A q \in Requests : reqs[q].done => CompleteCache(reqs[q].resp)

C4_Witness ==
  \E r \in InFlight, q \in Requests :
    /\ refresh[r].rows # <<>>
    /\ reqs[q].done
    /\ reqs[q].resp = CACHE
    /\ CACHE.by # r
    /\ CACHE.rows # <<>>
    /\ CACHE.rows # refresh[r].rows

(***************************************************************************)
(* C5.  When a refresh fails (warmCache catches a throw), the cache slot   *)
(* keeps the rows it held.                                                 *)
(* The code replaces the slot by { date: today, rows: [], error }.         *)
(***************************************************************************)
FailsNow(r) ==
  /\ r \in 1..Len(refresh')
  /\ refresh'[r].pc = "failed"
  /\ r \in Warms => refresh[r].pc # "failed"

C5_FailedRefreshKeepsRows ==
  [][\A r \in 1..MaxWarm : FailsNow(r) => CACHE'.rows = CACHE.rows]_vars

(***************************************************************************)
(* C6.  Within one refresh a failing standings or recent-matches fetch     *)
(* never aborts the refresh: while the loop waits for a fixture's data it  *)
(* holds exactly one row for every earlier fixture of the list inside the  *)
(* kickoff window [START_HOUR, 24); a refresh throws only when the         *)
(* fixture-list fetch rejected or a kickoff date cannot be parsed; and     *)
(* the result of a refresh that returned has exactly one row for every     *)
(* fixture inside the window.                                              *)
(***************************************************************************)
RowsFor(rows) == {rows[j].fx : j \in 1..Len(rows)}

C6_FixtureFailureIsolated ==
  \A r \in Warms :
    /\ (r \in InFlight /\ refresh[r].pc # "fixtures") =>
         /\ refresh[r].i \in 1..Len(refresh[r].arr)
         /\ InWindow(refresh[r].arr[refresh[r].i])
         /\ RowsFor(refresh[r].rows)
              = {k \in WindowFixtures(refresh[r].arr) : k < refresh[r].i}
         /\ Len(refresh[r].rows) = Cardinality(RowsFor(refresh[r].rows))
    /\ refresh[r].pc = "failed" =>
         \/ refresh[r].fx = "reject"
         \/ \E k \in 1..Len(refresh[r].arr) : refresh[r].arr[k].hh = InvalidDate
    /\ (refresh[r].pc = "done" /\ CACHE.by = r /\ CACHE.rows # <<DemoRow>>) =>
         /\ RowsFor(CACHE.rows) = WindowFixtures(refresh[r].arr)
         /\ Len(CACHE.rows) = Cardinality(WindowFixtures(refresh[r].arr))

C6_Witness ==
  /\ CACHE.by \in Warms
  /\ refresh[CACHE.by].pc = "done"
  /\ \E j, k \in 1..Len(CACHE.rows) :
       /\ CACHE.rows[j].fx = 1
       /\ CACHE.rows[j].prediction = FailPrediction(engine)
       /\ CACHE.rows[k].fx = 2
       /\ CACHE.rows[k].prediction = ComputedPrediction

(***************************************************************************)
(* C7.  In every engine variant a fixture whose form or standings fetch    *)
(* fails still gets a pick in its row, never an absent pick.               *)
(* v5.2.2 writes 'N/A' for such a fixture.                                 *)
(***************************************************************************)
C7_FailedFixtureHasPick ==
  \A j \in 1..Len(CACHE.rows) : CACHE.rows[j].prediction # "N/A"

(***************************************************************************)
(* C8.  With no API key configured, a refresh sends no upstream request    *)
(* (it never waits for one, and the memo maps stay empty) and yields an    *)
(* empty rows list with reason 'missing_api_key' and the local date of     *)
(* the refresh; the slot holds exactly that result, and every request is   *)
(* answered, with that result for its own date.                            *)
(***************************************************************************)
C8_MissingKey ==
  ~apiKey =>
    /\ \A r \in Warms :
         /\ refresh[r].pc = "done"
         /\ refresh[r].lists = 0
         /\ refresh[r].reason = "missing_api_key"
    /\ standingsCache = <<>> /\ formCache = {}
    /\ \/ CACHE = InitCache
       \/ /\ CACHE.by \in Warms
          /\ CACHE.rows = <<>>
          /\ CACHE.reason = "missing_api_key"
          /\ ~CACHE.error
          /\ CACHE.date = refresh[CACHE.by].date
          /\ CACHE.date = CACHE.savedAt
    /\ \A q \in Requests :
         /\ reqs[q].done
         /\ reqs[q].resp.rows = <<>>
         /\ reqs[q].resp.reason = "missing_api_key"
         /\ reqs[q].resp.date = reqs[q].d

C8_Witness ==
  /\ ~apiKey
  /\ today = 2
  /\ \E q \in Requests : reqs[q].done /\ reqs[q].warm # 0 /\ reqs[q].d = 2
  /\ \E r \in Warms : refresh[r].trig = "boot"

(***************************************************************************)
(* C9.  With FALLBACK_DEMO off, when the upstream fixture-list fetch       *)
(* rejects or is answered with a non-2xx response, the result stored in    *)
(* the cache is an empty rows list that carries a reason code.             *)
(* getJson does not look at the status: an error body is read as a list    *)
(* of no fixtures and the result carries neither reason nor error.         *)
(***************************************************************************)
C9_ListFailureHasReason ==
  (~fallbackDemo /\ CACHE.by \in Warms /\ refresh[CACHE.by].fx \in {"bad", "reject"}) =>
    /\ CACHE.rows = <<>>
    /\ CACHE.reason # "" \/ CACHE.error

(***************************************************************************)
(* C10.  chooseStrongest takes, for 1X2, Over/Under 2.5 and BTTS, the edge *)
(* of the market's leading outcome (its probability minus 1/3 for 1X2,     *)
(* minus 1/2 for the two binary markets) and, whenever the largest of the  *)
(* three edges is at least EDGE_MIN, returns the candidate with the        *)
(* largest edge: its market, its probability and that edge; among equal    *)
(* edges the first in the order 1X2, Over/Under, BTTS.                     *)
(***************************************************************************)
LeadEdge1X2 == Max2(probs.pH, Max2(probs.pD, probs.pA)) - Third
LeadEdgeTotals == Max2(probs.pU25, Scale - probs.pU25) - Half
LeadEdgeBTTS == Max2(probs.pBTTS, Scale - probs.pBTTS) - Half
LargestEdge == Max2(LeadEdge1X2, Max2(LeadEdgeTotals, LeadEdgeBTTS))

C10_LargestEdgeFirstInOrder ==
  (chosen # NoPick /\ LargestEdge >= EDGE_MIN) =>
    /\ chosen.edge = LargestEdge
    /\ chosen.note = ""
    /\ chosen.market =
         IF LeadEdge1X2 = LargestEdge THEN "1X2"
         ELSE IF LeadEdgeTotals = LargestEdge THEN "Over/Under 2.5"
         ELSE "BTTS"
    /\ chosen.prob = LargestEdge + (IF chosen.market = "1X2" THEN Third ELSE Half)

C10_Witness ==
  /\ chosen # NoPick
  /\ LargestEdge >= EDGE_MIN
  /\ LeadEdge1X2 = LargestEdge
  /\ LeadEdgeTotals = LargestEdge
  /\ LeadEdgeBTTS = LargestEdge
  /\ chosen.market = "1X2"

(***************************************************************************)
(* C11.  When the largest of the three edges is below EDGE_MIN,            *)
(* chooseStrongest returns the top-ranked candidate itself (the market     *)
(* with the largest edge, its probability and that edge), marked as a      *)
(* low-edge pick.                                                          *)
(* The code returns the 1X2 candidate in that case, whichever market       *)
(* ranked first.                                                           *)
(***************************************************************************)
C11_LowEdgeReturnsTop ==
  (chosen # NoPick /\ LargestEdge < EDGE_MIN) =>
    /\ chosen.note = "low-edge-fallback"
    /\ chosen.edge = LargestEdge
    /\ chosen.market =
         IF LeadEdge1X2 = LargestEdge THEN "1X2"
         ELSE IF LeadEdgeTotals = LargestEdge THEN "Over/Under 2.5"
         ELSE "BTTS"

(***************************************************************************)
(* C18.  For every team name whose normalized, alias-resolved key is not   *)
(* an entry of the rating table, seedOf returns exactly 1500; for every    *)
(* name it returns a number.                                               *)
(* SEED_ELO is an object literal: a key that names a property inherited    *)
(* from Object.prototype is found there, and its value is not a number.    *)
(***************************************************************************)
C18_UnknownTeamSeed1500 ==
  result.fn = "seedOf" =>
    /\ result.value >= 0
    /\ canonicalKey(args.name) \notin DOMAIN SEED_ELO => result.value = 1500

(***************************************************************************)
(* C12.  expectedGoalsAdvanced applies the one-sided tilt (home goals      *)
(* x 1.10, away goals x 0.90) exactly when the strength differential,      *)
(* home rating plus the home-advantage bonus minus away rating, exceeds    *)
(* STRONG_DIFF_TILT, and not otherwise.  Stated for teams whose ratings    *)
(* are numbers.                                                            *)
(* The code tests the difference of the ratings without the bonus.         *)
(***************************************************************************)
NumericSeeds == seedOf(args.homeName) >= 0 /\ seedOf(args.awayName) >= 0

C12_TiltWhenDifferentialExceeds ==
  (result.fn = "expectedGoalsAdvanced" /\ NumericSeeds) =>
    LET g == GoalsBeforeTilt(seedOf(args.homeName), seedOf(args.awayName),
                             args.leagueName, args.homeForm, args.awayForm)
        tilt == g.seedDiff > STRONG_DIFF_TILT
    IN /\ result.value.lh = ClampGoals(IF tilt THEN (g.lh * 110) \div 100 ELSE g.lh)
       /\ result.value.la = ClampGoals(IF tilt THEN (g.la * 90) \div 100 ELSE g.la)

(***************************************************************************)
(* C17.  For all team names, league labels and form snapshots, both        *)
(* expected-goals values that expectedGoalsAdvanced returns lie in         *)
(* [0.15, 3.2].                                                            *)
(* A team name whose rating is not a number (C18) makes both values NaN.   *)
(***************************************************************************)
C17_GoalsInRange ==
  result.fn = "expectedGoalsAdvanced" =>
    /\ result.value.lh \in 150..3200
    /\ result.value.la \in 150..3200

(***************************************************************************)
(* C13.  In formStats of v3 and v4 the venue-split averages are per venue: *)
(* away goals for and against per match are the totals of the team's away  *)
(* matches divided by their number (by 1 when there is none), and the home *)
(* averages the home totals divided by the number of home matches (by 1    *)
(* when there is none).                                                    *)
(* The code takes the number of away matches as gPlayed - homeGP after     *)
(* homeGP was raised from 0 to 1.                                          *)
(***************************************************************************)
HomeMatches == {i \in 1..Len(args.matches) : args.matches[i].homeTeam = args.teamId}
AwayMatches == (1..Len(args.matches)) \ HomeMatches

RECURSIVE Total(_, _)
\* the sum of goal[i] over the matches i of S
Total(S, goal) ==
  IF S = {} THEN 0
  ELSE LET i == CHOOSE i \in S : TRUE IN goal[i] + Total(S \ {i}, goal)

HomeGoals == [i \in 1..Len(args.matches) |-> args.matches[i].home]
AwayGoals == [i \in 1..Len(args.matches) |-> args.matches[i].away]
AtLeastOne(n) == IF n = 0 THEN 1 ELSE n

C13_VenueSplitPerVenue ==
  result.fn = "formStats" =>
    /\ result.value.homeGFpm
         = Quotient(Total(HomeMatches, HomeGoals), AtLeastOne(Cardinality(HomeMatches)))
    /\ result.value.homeGApm
         = Quotient(Total(HomeMatches, AwayGoals), AtLeastOne(Cardinality(HomeMatches)))
    /\ result.value.awayGFpm
         = Quotient(Total(AwayMatches, AwayGoals), AtLeastOne(Cardinality(AwayMatches)))
    /\ result.value.awayGApm
         = Quotient(Total(AwayMatches, HomeGoals), AtLeastOne(Cardinality(AwayMatches)))

(***************************************************************************)
(* C14.  For a team with n recent matches, 0 <= n <= 5, formStatsAdvanced  *)
(* returns points, goals for and goals against per match as the totals     *)
(* over exactly those n matches divided by n (by 1 when n = 0, giving 0),  *)
(* never divided by 5.                                                     *)
(***************************************************************************)
TeamIsHome(i) == args.matches[i].homeTeam = args.teamId
GoalsFor == [i \in 1..Len(args.matches) |->
               IF TeamIsHome(i) THEN args.matches[i].home ELSE args.matches[i].away]
GoalsAgainst == [i \in 1..Len(args.matches) |->
                   IF TeamIsHome(i) THEN args.matches[i].away ELSE args.matches[i].home]
Wins == {i \in 1..Len(args.matches) : GoalsFor[i] > GoalsAgainst[i]}
Draws == {i \in 1..Len(args.matches) : GoalsFor[i] = GoalsAgainst[i]}

C14_AverageOverMatchesPlayed ==
  (result.fn = "formStatsAdvanced" /\ Len(args.matches) <= 5) =>
    LET n == Len(args.matches)
        all == 1..n
    IN /\ result.value.ppm
            = Quotient(3 * Cardinality(Wins) + Cardinality(Draws), AtLeastOne(n))
       /\ result.value.gfpm = Quotient(Total(all, GoalsFor), AtLeastOne(n))
       /\ result.value.gapm = Quotient(Total(all, GoalsAgainst), AtLeastOne(n))
       /\ n = 0 => result.value.ppm = 0 /\ result.value.gfpm = 0 /\ result.value.gapm = 0

C14_Witness ==
  /\ result.fn = "formStatsAdvanced"
  /\ Len(args.matches) = 2
  /\ Cardinality(Wins) = 1
  /\ Cardinality(Draws) = 1
  /\ result.value.ppm = 2000
  /\ result.value.gfpm = 1000

(***************************************************************************)
(* C15.  Once a standings result for a competition is stored in the memo,  *)
(* every later lookup for that competition returns the stored result       *)
(* without an upstream request (a refresh that reaches getStandings for a  *)
(* memoized competition does not wait for a standings response), and the   *)
(* stored entry is never removed or replaced.                              *)
(* Two refreshes in flight can both miss the memo for one competition;     *)
(* the response that arrives second is stored over the first.              *)
(***************************************************************************)
C15_StandingsMemoKept ==
  [][/\ \A c \in DOMAIN standingsCache :
          c \in DOMAIN standingsCache' /\ standingsCache'[c] = standingsCache[c]
     /\ \A r \in 1..Len(refresh') :
          (refresh'[r].pc = "standings" /\ (r \in Warms => refresh[r].pc # "standings"))
            => refresh'[r].arr[refresh'[r].i].comp \notin DOMAIN standingsCache']_vars

(***************************************************************************)
(* C16.  Within one refresh the fixtures are processed one at a time in    *)
(* upstream order: a refresh never has more than one upstream request      *)
(* outstanding, and while it waits for a request of fixture k it holds     *)
(* the rows of exactly the fixtures before k that are inside the kickoff   *)
(* window, in upstream order.                                              *)
(***************************************************************************)
C16_OneFixtureAtATime ==
  \A r \in Warms :
    /\ Cardinality(refresh[r].wait) <= 1
    /\ r \in InFlight <=> refresh[r].wait # {}
    /\ \A w \in refresh[r].wait :
         w[1] # "fixtures" =>
           /\ w[2] = refresh[r].i
           /\ RowsFor(refresh[r].rows) = {k \in WindowFixtures(refresh[r].arr) : k < w[2]}
           /\ \A j, k \in 1..Len(refresh[r].rows) :
                j < k => refresh[r].rows[j].fx < refresh[r].rows[k].fx

C16_Witness ==
  \E r \in Warms :
    /\ refresh[r].wait = {<<"away", 2>>}
    /\ Len(refresh[r].rows) = 1
    /\ refresh[r].rows[1].fx = 1

(***************************************************************************)
(* C19.  For all expected-goals pairs in the clamped range, the three 1X2  *)
(* probabilities that probs1X2 returns, and the three that sharpen3 makes  *)
(* of them, each lie in [0, 1] and sum to 1.                               *)
(***************************************************************************)
InUnitInterval(p) == p.den > 0 /\ 0 <= p.num /\ p.num <= p.den
SumToOne(t) ==
  /\ t.pH.den = t.pD.den /\ t.pD.den = t.pA.den
  /\ t.pH.num + t.pD.num + t.pA.num = t.pH.den

C19_ProbabilitiesSumToOne ==
  result.fn = "probs1X2" =>
    /\ \A t \in {result.raw, result.sharp} :
         /\ InUnitInterval(t.pH) /\ InUnitInterval(t.pD) /\ InUnitInterval(t.pA)
         /\ SumToOne(t)

C19_Witness ==
  /\ result.fn = "probs1X2"
  /\ args.lh = 3200 /\ args.la = 150
  /\ Quotient(result.raw.pH.num, result.raw.pH.den) > 800
  /\ Quotient(result.sharp.pH.num, result.sharp.pH.den)
       > Quotient(result.raw.pH.num, result.raw.pH.den)

(***************************************************************************)
(* C20.  The v4 decidePick follows its documented policy for every         *)
(* probability combination: the best 1X2 outcome when its probability is   *)
(* at least 58%; otherwise the more likely side of Over/Under 2.5 when     *)
(* that side has at least 60%; else the more likely side of BTTS when that *)
(* side has at least 58%; else the best 1X2 outcome.                       *)
(***************************************************************************)
ProbabilityOf(a, market, label) ==
  CASE market = "1X2" /\ label = "1" -> a.pH
    [] market = "1X2" /\ label = "X" -> a.pD
    [] market = "1X2" /\ label = "2" -> a.pA
    [] market = "Over/Under 2.5" /\ label = "Over 2.5" -> Scale - a.pU25
    [] market = "Over/Under 2.5" /\ label = "Under 2.5" -> a.pU25
    [] market = "BTTS" /\ label = "Yes" -> a.pBTTS
    [] market = "BTTS" /\ label = "No" -> Scale - a.pBTTS
    [] OTHER -> -1

Best1X2(a) == Max2(a.pH, Max2(a.pD, a.pA))
BestTotals(a) == Max2(a.pU25, Scale - a.pU25)
BestBTTS(a) == Max2(a.pBTTS, Scale - a.pBTTS)

DocumentedMarket(a) ==
  IF Best1X2(a) * 100 >= 58 * Scale THEN "1X2"
  ELSE IF BestTotals(a) * 100 >= 60 * Scale THEN "Over/Under 2.5"
  ELSE IF BestBTTS(a) * 100 >= 58 * Scale THEN "BTTS"
  ELSE "1X2"

C20_DecidePickPolicy ==
  result.fn = "decidePick" =>
    /\ result.pick.market = DocumentedMarket(args)
    /\ result.pick.prob = ProbabilityOf(args, result.pick.market, result.pick.label)
    /\ result.pick.prob =
         CASE result.pick.market = "1X2" -> Best1X2(args)
           [] result.pick.market = "Over/Under 2.5" -> BestTotals(args)
           [] OTHER -> BestBTTS(args)

\* 1X2 below 58%, totals below 60%, BTTS "No" at exactly 58%: BTTS is picked
C20_Witness ==
  /\ result.fn = "decidePick"
  /\ Best1X2(args) * 100 < 58 * Scale
  /\ BestTotals(args) * 100 < 60 * Scale
  /\ args.pBTTS = Scale - Percent(58)
  /\ result.pick.market = "BTTS" /\ result.pick.label = "No"

(***************************************************************************)
(* C25.  The cache date never moves backwards: once the slot holds the     *)
(* result of a refresh for local date D, no later assignment to the slot   *)
(* replaces it with a result for a date earlier than D.                    *)
(* warmCache assigns the slot unconditionally: a refresh that started on   *)
(* an earlier date and returns after a newer one stores its own date.      *)
(***************************************************************************)
C25_CacheDateMonotonic == [][CACHE'.date >= CACHE.date]_vars

(***************************************************************************)
(* C27.  A standings lookup that fails upstream (network error, non-2xx    *)
(* error response, non-JSON body) stores nothing in the standings memo:    *)
(* only a successfully retrieved standings table is memoized.              *)
(* getStandings stores a pack for every body getJson returns, the empty    *)
(* pack for an error body or for text that is not JSON.                    *)
(***************************************************************************)
C27_OnlyTablesMemoized ==
  \A c \in DOMAIN standingsCache : standingsCache[c] = "table"

(***************************************************************************)
(* C28.  After a refresh that fails by exception the slot holds the        *)
(* current local date with an empty rows list and an error field, and      *)
(* every following GET /api/today of that local date is served this empty  *)
(* result without an upstream fetch, until the 00:01 job runs or the local *)
(* date changes.  As a property of steps: the step in which a refresh      *)
(* fails leaves such a slot; while the slot holds the failed result of the *)
(* current date, a GET /api/today step answers with it and starts no       *)
(* warmCache; and the slot keeps it in every step in which the date stays  *)
(* and no refresh of the 00:01 job is due, started or under way.           *)
(* Another refresh that was under way when the failure happened assigns    *)
(* the slot when it returns.                                               *)
(***************************************************************************)
FailedToday(c) == c.error /\ c.rows = <<>> /\ c.date = today

CronAround ==
  \/ cronDue \/ cronDue'
  \/ \E r \in 1..Len(refresh') : refresh'[r].trig = "cron" /\ refresh'[r].pc # "done"
                                  /\ refresh'[r].pc # "failed"
  \/ \E r \in Warms : refresh[r].trig = "cron" /\ refresh[r].pc \in {"fixtures", "standings", "home", "away"}

C28_FailureServedAllDay ==
  [][/\ \A r \in 1..MaxWarm : FailsNow(r) => FailedToday(CACHE') /\ CACHE'.by = r
     /\ (FailedToday(CACHE) /\ Len(reqs') > Len(reqs)) =>
          /\ Len(refresh') = Len(refresh)
          /\ reqs'[Len(reqs')].done
          /\ reqs'[Len(reqs')].warm = 0
          /\ reqs'[Len(reqs')].resp = CACHE
     /\ (FailedToday(CACHE) /\ today' = today /\ ~CronAround) => CACHE' = CACHE]_vars

(***************************************************************************)
(* Vocabulary of the claims about the prediction queue.                    *)
(***************************************************************************)
Rows == 1..Len(sched.rows)
Running == {k \in Rows : sched.calls[k].st \in {"first", "backoff", "retry"}}
RequestsSent ==
  LET f[n \in 0..Len(sched.rows)] == IF n = 0 THEN 0 ELSE f[n - 1] + sched.calls[n].sent
  IN f[Len(sched.rows)]

(***************************************************************************)
(* C21.  During one warm the total number of HTTP requests sent to the     *)
(* predictions endpoint never exceeds PREDICTION_MAX, whatever the number  *)
(* of fixtures and whatever the upstream answers (429 included).           *)
(* used counts the fixtures asked for; the retry after a 429 is a second   *)
(* request that nothing counts.                                            *)
(***************************************************************************)
C21_RequestsWithinMax == sched.pc # "none" => RequestsSent <= sched.max

(***************************************************************************)
(* C22.  The number of runOne calls started and not yet settled (their     *)
(* back-off and retry included) never exceeds PREDICTION_CONCURRENCY at    *)
(* any point of a warm.                                                    *)
(***************************************************************************)
C22_InFlightWithinConcurrency ==
  sched.pc # "none" =>
    /\ Cardinality(Running) <= sched.conc
    /\ sched.inFlight = Cardinality(Running)

C22_Witness ==
  /\ sched.pc = "delay"
  /\ sched.conc = 2
  /\ sched.idx < Len(sched.rows)
  /\ \E j, k \in Running : sched.calls[j].st = "backoff" /\ sched.calls[k].st = "first"

(***************************************************************************)
(* C23.  If the prediction request for a fixture fails, is rate-limited    *)
(* (also after its retry), or is skipped because of PREDICTION_MAX, the    *)
(* fixture still appears in the cached rows with the dash as prediction;   *)
(* a prediction failure never removes a fixture from the rows.  The rows   *)
(* of the queue are at all times one per fixture, in upstream order, and   *)
(* the rows that the warm saves are one per fixture.                       *)
(***************************************************************************)
Unavailable(k) ==
  \/ sched.calls[k].st = "returned"
  \/ /\ sched.calls[k].st = "settled"
     /\ sched.calls[k].first # "ok"
     /\ sched.calls[k].second # "ok"

C23_FailedPredictionKeepsRow ==
  sched.pc # "none" =>
    /\ \A k \in Rows : sched.rows[k].fx = k
    /\ \A k \in Rows : Unavailable(k) => sched.rows[k].prediction = "-"
    /\ sched.pc = "resolved" =>
         /\ Len(sched.cached) = Len(sched.rows)
         /\ {sched.cached[j].fx : j \in 1..Len(sched.cached)} = Rows
         /\ \A j \in 1..Len(sched.cached) :
              /\ Unavailable(sched.cached[j].fx) => sched.cached[j].prediction = "-"
              /\ sched.cached[j].kickoff = sched.rows[sched.cached[j].fx].kickoff

C23_Witness ==
  /\ sched.pc = "resolved"
  /\ Len(sched.cached) = 3
  /\ \E i, j, k \in Rows :
       /\ sched.calls[i].first = "429" /\ sched.calls[i].second = "429"
       /\ sched.calls[j].first = "error"
       /\ sched.calls[k].st = "returned" /\ sched.rows[k].fixtureId # 0
  /\ \A j \in 1..3 : sched.cached[j].prediction = "-"

(***************************************************************************)
(* C24.  The prediction scheduler of a warm eventually resolves for every  *)
(* non-empty fixture list, provided every prediction request eventually    *)
(* completes or fails and PREDICTION_CONCURRENCY >= 1; lists that contain  *)
(* fixtures without a fixture id and lists longer than PREDICTION_MAX      *)
(* included.                                                               *)
(* A runOne call that returns before its try block never counts in done,   *)
(* and tick waits for done to reach min(total, PREDICTION_MAX).            *)
(***************************************************************************)
C24_SchedulerResolves == <>(sched.pc = "resolved")

(***************************************************************************)
(* C26.  For each fixture a prediction request that fails with HTTP 429    *)
(* is retried exactly once, and only after waiting RETRY_429_DELAY_MS; a   *)
(* failure with any other status is not retried and a failed retry is not  *)
(* retried again: at most two prediction requests are ever sent for one    *)
(* fixture in a warm.                                                      *)
(***************************************************************************)
C26_RetryOnceOn429 ==
  [][sched'.pc # "none" =>
       \A k \in 1..Len(sched'.rows) :
         LET c == sched.calls[k]
             d == sched'.calls[k]
         IN /\ d.sent <= 2
            /\ d.sent >= c.sent
            /\ d.sent > c.sent =>
                 \/ c.st = "none" /\ d.sent = 1 /\ d.st = "first"
                 \/ c.st = "backoff" /\ c.first = "429" /\ d.sent = 2 /\ d.st = "retry"
            /\ d.st = "backoff" => d.first = "429" /\ d.sent = 1
            /\ (d.st = "settled" /\ d.first = "429") => d.sent = 2 /\ d.second # "none"
            /\ (d.st = "settled" /\ d.first # "429") => d.sent = 1 /\ d.second = "none"
            /\ c.st = "settled" => d = c]_vars

C26_Witness ==
  /\ sched.pc = "resolved"
  /\ \E j, k \in Rows :
       /\ sched.calls[j].st = "settled" /\ sched.calls[j].first = "429"
       /\ sched.calls[j].second = "429" /\ sched.calls[j].sent = 2
       /\ sched.calls[k].st = "settled" /\ sched.calls[k].first = "error"
       /\ sched.calls[k].sent = 1

====
